---- MODULE Spec2Model ----
(***************************************************************************)
(* State-machine model of rag-demo (src/main.go): a command-line RAG       *)
(* pipeline.  main() loads every URL given on the command line, splits it  *)
(* into chunks, writes the chunks to a vector store in batches of 10 and   *)
(* then answers questions in an endless prompt/read/search/generate loop.  *)
(*                                                                         *)
(* The external collaborators (net/http, goquery, the text splitter, the   *)
(* Ollama embedder and model, the pgvector store) are modelled by their    *)
(* outcomes: every call either fails or returns one of a bounded set of    *)
(* values, chosen nondeterministically.  Score and similarity values are   *)
(* kept in hundredths (0.70 is 70).  The text of a chunk (PageContent) is  *)
(* not tracked: no control flow of main.go depends on it.                  *)
(***************************************************************************)
EXTENDS Integers, Sequences, FiniteSets, TLC

\* ------------------------------------------------------------------ bounds
MaxUrls == 2
MaxChunks == 2
MaxDocs == 25
MaxStored == 6
MaxFragments == 2

\* ------------------------------------------------------- program constants
batchSize == 10
K == 5
ScoreThreshold == 70

Urls == {"http://a.test/", "http://b.test/"}

\* ------------------------------------------------------------------- state
VARIABLES
    args,           \* os.Args[1:], the URLs of the command line
    pc,             \* position of main()
    exitCode,       \* 0 while running, 1 after must() called os.Exit(1)
    fatal,          \* the error must() printed before exiting, "" while running
    inited,         \* which of embedder, store, llm have been constructed
    idx,            \* URLs consumed by the range loop of parseAndloadDocumentsFromURLs
    allDocs,        \* the accumulated []schema.Document
    ingestLog,      \* one printed line per URL: failed, or split into n chunks
    i,              \* loop variable of addDocumentsToStore
    processedDocs,  \* processedDocs of addDocumentsToStore
    writes,         \* the store.AddDocuments calls made so far, with their outcome
    summary,        \* the number printed by the closing line, -1 before it
    store,          \* the documents the collection holds
    question,       \* the trimmed line handed to handleQuestion
    results,        \* what SimilaritySearch returned to handleQuestion
    displayed,      \* the similarities printed by displaySearchResults
    received,       \* fragments the model delivered to the streaming callback
    answerOut,      \* what the streaming callback printed in the current call
    genCalls,       \* llm.GenerateContent calls made for the current question
    lastPrint       \* the last line printed by the loop

vars == <<args, pc, exitCode, fatal, inited, idx, allDocs, ingestLog, i, processedDocs,
          writes, summary, store, question, results, displayed, received,
          answerOut, genCalls, lastPrint>>

ingestVars == <<idx, allDocs, ingestLog>>
batchVars == <<i, processedDocs, writes, summary, store>>
qaVars == <<question, results, displayed, received, answerOut, genCalls, lastPrint>>

\* ----------------------------------------------------------------- helpers
Min(a, b) == IF a < b THEN a ELSE b

Digit(d) ==
    CASE d = 0 -> "0" [] d = 1 -> "1" [] d = 2 -> "2" [] d = 3 -> "3"
      [] d = 4 -> "4" [] d = 5 -> "5" [] d = 6 -> "6" [] d = 7 -> "7"
      [] d = 8 -> "8" [] d = 9 -> "9"

\* fmt.Sprintf("%d", n) for n >= 0
RECURSIVE Sprintf_d(_)
Sprintf_d(n) == IF n < 10 THEN Digit(n) ELSE Sprintf_d(n \div 10) \o Digit(n % 10)

\* The documents loadAndSplitWebContent builds from n chunks of one page:
\* the range index i runs from 0.
ChunkIndexOneBased(k) == k
ChunkIndex(k) == k - 1
BuildDocuments(url, n) ==
    [k \in 1..n |-> [source |-> url, chunk |-> Sprintf_d(ChunkIndex(k))]]

\* ------------------------------------------------------------------- main
\* len(os.Args) < 2: parseAndloadDocumentsFromURLs returns an error before any
\* fetch, and must() exits.
ParseArgs ==
    /\ pc = "start"
    /\ IF Len(args) = 0
         THEN /\ pc' = "exit"
              /\ exitCode' = 1
              /\ fatal' = "noUrl"
         ELSE /\ pc' = "load"
              /\ UNCHANGED <<exitCode, fatal>>
    /\ UNCHANGED <<args, inited, ingestVars, batchVars, qaVars>>

\* What the loop of parseAndloadDocumentsFromURLs does with the outcome of
\* loadAndSplitWebContent(url).
AppendDocs(docs, url, ok, n) == IF ok THEN docs \o BuildDocuments(url, n) ELSE docs

\* One iteration of the range loop: loadAndSplitWebContent(url) fails (http.Get,
\* goquery or the splitter returns an error) or returns n documents.
LoadURL ==
    /\ pc = "load"
    /\ idx < Len(args)
    /\ \E ok \in BOOLEAN, n \in 0..MaxChunks :
          /\ (~ok) => n = 0
          /\ allDocs' = AppendDocs(allDocs, args[idx + 1], ok, n)
          /\ ingestLog' = Append(ingestLog, [url |-> args[idx + 1], ok |-> ok, n |-> n])
    /\ idx' = idx + 1
    /\ UNCHANGED <<args, pc, exitCode, fatal, inited, batchVars, qaVars>>

NeverNothingLoaded(docs) == Len(docs) < 0
\* The test that ends parseAndloadDocumentsFromURLs.
NothingLoaded(docs) == Len(docs) = 0

\* After the loop: an empty allDocs is an error, and must() exits.
IngestReturn ==
    /\ pc = "load"
    /\ idx = Len(args)
    /\ IF NothingLoaded(allDocs)
         THEN /\ pc' = "exit"
              /\ exitCode' = 1
              /\ fatal' = "nothingLoaded"
         ELSE /\ pc' = "initEmbedder"
              /\ UNCHANGED <<exitCode, fatal>>
    /\ UNCHANGED <<args, inited, ingestVars, batchVars, qaVars>>

\* An initialisation whose error is not passed to must().
InitStepUnchecked(at, what, next) ==
    /\ pc = at
    /\ \E ok \in BOOLEAN :
          /\ inited' = IF ok THEN inited \cup {what} ELSE inited
          /\ pc' = next
          /\ UNCHANGED <<exitCode, fatal>>

\* must(err): a failed initialisation exits with code 1.
InitStep(at, what, next) ==
    /\ pc = at
    /\ \E ok \in BOOLEAN :
          IF ok
            THEN /\ inited' = inited \cup {what}
                 /\ pc' = next
                 /\ UNCHANGED <<exitCode, fatal>>
            ELSE /\ inited' = inited
                 /\ pc' = "exit"
                 /\ exitCode' = 1
                 /\ fatal' = what

InitEmbedder ==
    /\ InitStep("initEmbedder", "embedder", "initStore")
    /\ UNCHANGED <<args, ingestVars, batchVars, qaVars>>

InitVectorStore ==
    /\ InitStep("initStore", "store", "addDocs")
    /\ UNCHANGED <<args, ingestVars, batchVars, qaVars>>

\* ---------------------------------------------------- addDocumentsToStore
BatchEndShort(from, total) ==
    IF from + batchSize > total THEN total ELSE from + batchSize - 1
BatchEnd(from, total) == IF from + batchSize > total THEN total ELSE from + batchSize

\* processedDocs after a write of a batch of n documents.
Processed(done, n, ok) == IF ok THEN done + n ELSE done

\* One iteration: batch := allDocs[i:end]; the write succeeds or fails; a failed
\* write is logged and the loop continues.
AddBatch ==
    /\ pc = "addDocs"
    /\ i < Len(allDocs)
    /\ LET end == BatchEnd(i, Len(allDocs))
           batch == SubSeq(allDocs, i + 1, end)
       IN \E ok \in BOOLEAN :
             /\ writes' = Append(writes, [batch |-> batch, ok |-> ok])
             /\ store' = IF ok THEN store \o batch ELSE store
             /\ processedDocs' = Processed(processedDocs, Len(batch), ok)
    /\ i' = i + batchSize
    /\ summary' = summary
    /\ UNCHANGED <<args, pc, exitCode, fatal, inited, ingestVars, qaVars>>

\* The number the closing line of addDocumentsToStore prints.
SummaryCount(total, done) == total

AddSummary ==
    /\ pc = "addDocs"
    /\ i >= Len(allDocs)
    /\ summary' = SummaryCount(Len(allDocs), processedDocs)
    /\ pc' = "initLLM"
    /\ UNCHANGED <<args, exitCode, fatal, inited, ingestVars, i, processedDocs, writes,
                   store, qaVars>>

InitLLM ==
    /\ InitStep("initLLM", "llm", "await")
    /\ UNCHANGED <<args, ingestVars, batchVars, qaVars>>

\* ------------------------------------------------------ startInteractiveQA
space == " "
newline == "\n"
IsSpace(c) == c \in {space, newline}

\* strings.TrimSpace over a line held as a sequence of characters.
RECURSIVE TrimLeft(_)
TrimLeft(s) == IF s # <<>> /\ IsSpace(Head(s)) THEN TrimLeft(Tail(s)) ELSE s
RECURSIVE TrimRight(_)
TrimRight(s) ==
    IF s # <<>> /\ IsSpace(s[Len(s)]) THEN TrimRight(SubSeq(s, 1, Len(s) - 1)) ELSE s
TrimSpace(s) == TrimRight(TrimLeft(s))

\* What reader.ReadString('\n') can hand back: nothing (end of input or a read
\* error, which the loop discards), an empty line, a question.
RawLines == {<<>>, <<newline>>, <<"q", newline>>, <<space, "q", space, newline>>}

\* The loop's only way on: print the prompt, read a line, trim it, dispatch.
ReadQuestion ==
    /\ pc = "await"
    /\ \E raw \in RawLines : question' = TrimSpace(raw)
    /\ pc' = "handle"
    /\ genCalls' = 0
    /\ received' = <<>>
    /\ answerOut' = ""
    /\ lastPrint' = "prompt"
    /\ UNCHANGED <<args, exitCode, fatal, inited, ingestVars, batchVars, results, displayed>>

\* Scores (hundredths) the store hands back under WithScoreThreshold(0.7): the
\* README's sample run shows similarities 0.70, 0.67 and 0.66, which
\* displaySearchResults computed as 1 - Score.
Scores == {30, 33, 34}

IsSorted(s) == \A a, b \in 1..Len(s) : a < b => s[a] <= s[b]

\* store.SimilaritySearch(ctx, question, numDocuments, threshold): at most
\* numDocuments documents of the collection, closest first.
SimilaritySearch(held, numDocuments) ==
    {r \in UNION {[1..n -> Scores] : n \in 0..Min(numDocuments, Len(held))} : IsSorted(r)}

\* score := 1 - doc.Score
Similarity(score) == 100 - score
DisplaySearchResults(found) == [k \in 1..Len(found) |-> Similarity(found[k])]

NoContextNever(found) == FALSE
\* if len(results) == 0: nothing to ground an answer on.
NoContext(found) == Len(found) = 0

\* handleQuestion up to the start of llm.GenerateContent: the search fails, or
\* finds nothing, or the results are displayed and generation starts.
HandleQuestion ==
    /\ pc = "handle"
    /\ \/ /\ lastPrint' = "searchFailed"
          /\ pc' = "await"
          /\ question' = <<>>
          /\ UNCHANGED <<results, displayed, genCalls>>
       \/ \E found \in SimilaritySearch(store, K) :
             IF NoContext(found)
               THEN /\ lastPrint' = "notFound"
                    /\ pc' = "await"
                    /\ question' = <<>>
                    /\ UNCHANGED <<results, displayed, genCalls>>
               ELSE /\ results' = found
                    /\ displayed' = DisplaySearchResults(found)
                    /\ lastPrint' = "generating"
                    /\ genCalls' = genCalls + 1
                    /\ pc' = "generating"
                    /\ question' = question
    /\ UNCHANGED <<args, exitCode, fatal, inited, ingestVars, batchVars, received, answerOut>>

Fragments == {"a", "b"}

StreamingFuncPrepend(printed, chunk) == chunk \o printed
\* The streaming callback: fmt.Print(string(chunk)).
StreamingFunc(printed, chunk) == printed \o chunk

\* The model delivers one more fragment to the callback.
StreamChunk ==
    /\ pc = "generating"
    /\ Len(received) < MaxFragments
    /\ \E chunk \in Fragments :
          /\ received' = Append(received, chunk)
          /\ answerOut' = StreamingFunc(answerOut, chunk)
    /\ UNCHANGED <<args, pc, exitCode, fatal, inited, ingestVars, batchVars, question,
                   results, displayed, genCalls, lastPrint>>

\* generateAnswer passing the error of GenerateContent to must().
GenerateReturnMust ==
    /\ pc = "generating"
    /\ \E ok \in BOOLEAN :
          IF ok
            THEN /\ lastPrint' = "answered"
                 /\ pc' = "await"
                 /\ UNCHANGED <<exitCode, fatal>>
            ELSE /\ lastPrint' = "generateFailed"
                 /\ pc' = "exit"
                 /\ exitCode' = 1
                 /\ fatal' = "generate"
    /\ question' = <<>>
    /\ results' = <<>>
    /\ displayed' = <<>>
    /\ UNCHANGED <<args, inited, ingestVars, batchVars, received, answerOut, genCalls>>

\* What generateAnswer prints when GenerateContent returns.
GenerateResult(ok) == IF ok THEN "answered" ELSE "generateFailed"

\* llm.GenerateContent returns, with or without an error; generateAnswer and
\* handleQuestion return to the loop.
GenerateReturn ==
    /\ pc = "generating"
    /\ \E ok \in BOOLEAN : lastPrint' = GenerateResult(ok)
    /\ pc' = "await"
    /\ question' = <<>>
    /\ results' = <<>>
    /\ displayed' = <<>>
    /\ UNCHANGED <<args, exitCode, fatal, inited, ingestVars, batchVars, received,
                   answerOut, genCalls>>

UrlLists == UNION {[1..n -> Urls] : n \in 0..MaxUrls}

Init ==
    /\ args \in UrlLists
    /\ pc = "start"
    /\ exitCode = 0
    /\ fatal = ""
    /\ inited = {}
    /\ idx = 0
    /\ allDocs = <<>>
    /\ ingestLog = <<>>
    /\ i = 0
    /\ processedDocs = 0
    /\ writes = <<>>
    /\ summary = -1
    /\ store = <<>>
    /\ question = <<>>
    /\ results = <<>>
    /\ displayed = <<>>
    /\ received = <<>>
    /\ answerOut = ""
    /\ genCalls = 0
    /\ lastPrint = ""

Next ==
    \/ ParseArgs
    \/ LoadURL
    \/ IngestReturn
    \/ InitEmbedder
    \/ InitVectorStore
    \/ AddBatch
    \/ AddSummary
    \/ InitLLM
    \/ ReadQuestion
    \/ HandleQuestion
    \/ StreamChunk
    \/ GenerateReturn

Spec == Init /\ [][Next]_vars

\* ------------------------------------------- addDocumentsToStore on its own
\* The state in which main() calls addDocumentsToStore, for every length of
\* allDocs from 1 to MaxDocs (one page split into that many chunks).
InitBatch ==
    /\ \E u \in Urls, n \in 1..MaxDocs :
          /\ args = <<u>>
          /\ allDocs = BuildDocuments(u, n)
          /\ ingestLog = <<[url |-> u, ok |-> TRUE, n |-> n]>>
    /\ pc = "addDocs"
    /\ exitCode = 0
    /\ fatal = ""
    /\ inited = {"embedder", "store"}
    /\ idx = 1
    /\ i = 0
    /\ processedDocs = 0
    /\ writes = <<>>
    /\ summary = -1
    /\ store = <<>>
    /\ question = <<>>
    /\ results = <<>>
    /\ displayed = <<>>
    /\ received = <<>>
    /\ answerOut = ""
    /\ genCalls = 0
    /\ lastPrint = ""

NextBatch ==
    \/ AddBatch
    \/ AddSummary

SpecBatch == InitBatch /\ [][NextBatch]_vars

\* --------------------------------------------- startInteractiveQA on its own
\* The state in which main() calls startInteractiveQA after one page of n
\* chunks (n <= MaxStored < batchSize, so one batch) whose write succeeded or
\* failed.
InitQA ==
    /\ \E u \in Urls, n \in 1..MaxStored, wrote \in BOOLEAN :
          /\ args = <<u>>
          /\ allDocs = BuildDocuments(u, n)
          /\ ingestLog = <<[url |-> u, ok |-> TRUE, n |-> n]>>
          /\ writes = <<[batch |-> BuildDocuments(u, n), ok |-> wrote]>>
          /\ store = IF wrote THEN BuildDocuments(u, n) ELSE <<>>
          /\ processedDocs = Processed(0, n, wrote)
          /\ summary = SummaryCount(n, Processed(0, n, wrote))
    /\ pc = "await"
    /\ exitCode = 0
    /\ fatal = ""
    /\ inited = {"embedder", "store", "llm"}
    /\ idx = 1
    /\ i = batchSize
    /\ question = <<>>
    /\ results = <<>>
    /\ displayed = <<>>
    /\ received = <<>>
    /\ answerOut = ""
    /\ genCalls = 0
    /\ lastPrint = ""

NextQA ==
    \/ ReadQuestion
    \/ HandleQuestion
    \/ StreamChunk
    \/ GenerateReturn

SpecQA == InitQA /\ [][NextQA]_vars

\* ================================================================ claims
InLoop == pc \in {"await", "handle", "generating"}
IngestReturned == pc \notin {"start", "load"}
IngestSucceeded == IngestReturned /\ fatal \notin {"noUrl", "nothingLoaded"}
\* Some URL failed and another URL succeeded.
FailedAndOtherSucceeded ==
    \E j, k \in 1..Len(ingestLog) :
        ~ingestLog[j].ok /\ ingestLog[k].ok /\ ingestLog[j].url # ingestLog[k].url
SomeSucceeded == \E k \in 1..Len(ingestLog) : ingestLog[k].ok
SucceededUrls == {ingestLog[k].url : k \in {j \in 1..Len(ingestLog) : ingestLog[j].ok}}

\* The documents of one successful load: n documents of that source, numbered from 0.
RunOf(entry) ==
    IF entry.ok
      THEN [k \in 1..entry.n |-> [source |-> entry.url, chunk |-> Sprintf_d(k - 1)]]
      ELSE <<>>
RECURSIVE RunsOf(_)
RunsOf(log) == IF log = <<>> THEN <<>> ELSE RunOf(Head(log)) \o RunsOf(Tail(log))

\* C1 (as stated): when at least one URL failed and at least one other URL
\* succeeded, ingestion returns no error, and allDocs is the in-order
\* concatenation of the documents of the succeeding URLs, every source a URL
\* that succeeded.
C1_PartialFailureSucceeds ==
    (IngestReturned /\ FailedAndOtherSucceeded) =>
        /\ fatal # "nothingLoaded"
        /\ allDocs = RunsOf(ingestLog)
        /\ \A k \in 1..Len(allDocs) : allDocs[k].source \in SucceededUrls

\* C2: while no URL has succeeded no AddDocuments call is made and the loop is
\* not entered; once every URL of a non-empty list has failed the process has
\* ended with the fatal "nothing loaded" error and exit code 1.
C2_AllFailedIsFatal ==
    (~SomeSucceeded) =>
        /\ writes = <<>>
        /\ store = <<>>
        /\ ~InLoop
        /\ (IngestReturned /\ Len(args) > 0) =>
              (pc = "exit" /\ fatal = "nothingLoaded" /\ exitCode = 1)

C2_Witness ==
    /\ pc = "exit"
    /\ Len(args) = 2
    /\ Len(ingestLog) = 2
    /\ ~SomeSucceeded
    /\ fatal = "nothingLoaded"

CeilDiv(n, d) == (n + d - 1) \div d

\* C3: the write calls are exactly the contiguous batches of batchSize
\* documents in list order (the last one holding the rest), whatever the
\* outcome of each write; when the loop has ended there are ceil(N/batchSize)
\* of them, so every document is in exactly one call.
C3_BatchesPartition ==
    LET N == Len(allDocs) IN
    /\ Len(writes) <= CeilDiv(N, batchSize)
    /\ \A k \in 1..Len(writes) :
          /\ writes[k].batch = SubSeq(allDocs, (k - 1) * batchSize + 1, Min(k * batchSize, N))
          /\ Len(writes[k].batch) =
                IF k < CeilDiv(N, batchSize) THEN batchSize
                ELSE N - batchSize * (CeilDiv(N, batchSize) - 1)
    /\ (pc = "initLLM") => Len(writes) = CeilDiv(N, batchSize)

C3_Witness ==
    /\ pc = "initLLM"
    /\ Len(allDocs) = 25
    /\ Len(writes) = 3
    /\ writes[1].ok /\ ~writes[2].ok /\ writes[3].ok
    /\ Len(writes[1].batch) = 10 /\ Len(writes[2].batch) = 10 /\ Len(writes[3].batch) = 5

\* The positions of allDocs whose source is s.
OfSource(s) == {k \in 1..Len(allDocs) : allDocs[k].source = s}
\* The chunk indices of source s are exactly 0..count-1, each once.
ExactIndices(s) ==
    \A j \in 0..(Cardinality(OfSource(s)) - 1) :
        Cardinality({k \in OfSource(s) : allDocs[k].chunk = Sprintf_d(j)}) = 1
\* The successful loads of URL s that produced documents.
LoadsOf(s) == {k \in 1..Len(ingestLog) :
                  ingestLog[k].ok /\ ingestLog[k].url = s /\ ingestLog[k].n > 0}

\* C4 (as stated): after a successful ingestion, for every source the chunk
\* indices of its documents are exactly 0..count-1, also when a URL is named
\* more than once.
C4_IndicesExactPerSource ==
    IngestSucceeded => \A s \in Urls : ExactIndices(s)

\* C4 (amended): after a successful ingestion allDocs is, in order, one run per
\* successful load, each run carrying its URL as source and the chunk indices
\* 0..n-1; for a source loaded at most once the indices are exactly 0..count-1.
C4_IndicesExactPerLoad ==
    IngestSucceeded =>
        /\ allDocs = RunsOf(ingestLog)
        /\ \A s \in Urls : Cardinality(LoadsOf(s)) <= 1 => ExactIndices(s)

C4_Witness ==
    /\ pc = "initEmbedder"
    /\ Len(args) = 2
    /\ args[1] # args[2]
    /\ ingestLog[1].ok /\ ingestLog[1].n = 2
    /\ ingestLog[2].ok /\ ingestLog[2].n = 2
    /\ Len(allDocs) = 4

\* C5 (as stated): the result set displayed and passed to generation has at
\* most K entries and every displayed similarity (1 - score) is at least the
\* threshold.
C5_ResultsWithinThreshold ==
    (pc = "generating") =>
        /\ Len(results) <= K
        /\ Len(displayed) = Len(results)
        /\ \A k \in 1..Len(displayed) : displayed[k] >= ScoreThreshold

\* C6: at most one generation call per question, made only with a non-empty
\* result set of a successful search; after "not found" or a failed search no
\* generation call was made for that question.
C6_GenerateOnlyWithContext ==
    /\ genCalls \in {0, 1}
    /\ (pc = "generating") => (genCalls = 1 /\ Len(results) >= 1)
    /\ (genCalls = 1) => lastPrint \in {"generating", "answered", "generateFailed"}
    /\ (lastPrint \in {"notFound", "searchFailed"}) => (genCalls = 0 /\ pc = "await")
    /\ (pc = "handle") => genCalls = 0

C6_Witness ==
    /\ pc = "await"
    /\ lastPrint = "notFound"
    /\ genCalls = 0
    /\ store # <<>>

\* C7: the loop is entered only with at least one document and with embedder,
\* store and model initialised; every startup failure ends the process with
\* exit code 1 before any prompt is printed; without a URL argument nothing is
\* fetched and nothing is written.
C7_StartupGating ==
    /\ InLoop =>
          /\ Len(allDocs) >= 1
          /\ inited = {"embedder", "store", "llm"}
          /\ exitCode = 0 /\ fatal = ""
          /\ summary # -1
    /\ (pc \in {"initStore", "addDocs", "initLLM"}) => "embedder" \in inited
    /\ (pc \in {"addDocs", "initLLM"}) => "store" \in inited
    /\ (pc = "exit") <=> (exitCode = 1)
    /\ (pc = "exit") <=> (fatal # "")
    /\ (pc = "exit") =>
          /\ fatal \in {"noUrl", "nothingLoaded", "embedder", "store", "llm"}
          /\ lastPrint = ""
          /\ fatal \notin inited
    /\ (lastPrint # "") => InLoop
    /\ (Len(args) = 0) =>
          /\ ingestLog = <<>>
          /\ writes = <<>>
          /\ (pc # "start") => (pc = "exit" /\ fatal = "noUrl")
    /\ (fatal = "nothingLoaded") => (allDocs = <<>> /\ writes = <<>>)

C7_Witness ==
    /\ pc = "handle"
    /\ lastPrint = "prompt"
    /\ inited = {"embedder", "store", "llm"}
    /\ Len(allDocs) >= 1

\* C8: the loop is never left; every way out of the handling of a question
\* leads back to "await" with the outcome printed (a failed search, nothing
\* found, a failed generation, a completed answer); a question is read only
\* in "await"; and in the loop some step is always possible.
C8_LoopStep ==
    /\ InLoop => (InLoop' /\ exitCode' = 0)
    /\ (pc = "handle" /\ pc' # "handle") =>
          \/ pc' = "generating"
          \/ pc' = "await" /\ lastPrint' \in {"searchFailed", "notFound"}
    /\ (pc = "generating" /\ pc' # "generating") =>
          (pc' = "await" /\ lastPrint' \in {"answered", "generateFailed"})
    /\ (lastPrint' = "prompt" /\ pc' = "handle" /\ pc # "handle") => pc = "await"
    /\ (pc # "await" /\ pc' = pc) => lastPrint' = lastPrint
\* C8: in every behaviour the loop is never left and always has a step to
\* take, and every step of it is a C8_LoopStep.
C8_LoopNeverEnds ==
    /\ [](InLoop /\ ENABLED NextQA)
    /\ [][C8_LoopStep]_vars

C8_Witness ==
    /\ pc = "await"
    /\ lastPrint = "generateFailed"
    /\ question = <<>>

RECURSIVE Concat(_)
Concat(fs) == IF fs = <<>> THEN "" ELSE Head(fs) \o Concat(Tail(fs))

\* C10: at every moment the text the streaming callback has printed is the
\* in-order concatenation of the fragments delivered so far, also after the
\* call has ended with an error.
C10_StreamedInOrder == answerOut = Concat(received)

C10_Witness ==
    /\ pc = "await"
    /\ lastPrint = "generateFailed"
    /\ received = <<"b", "a">>
    /\ answerOut = "ba"

RECURSIVE Stored(_)
Stored(ws) ==
    IF ws = <<>> THEN 0
    ELSE (IF Head(ws).ok THEN Len(Head(ws).batch) ELSE 0) + Stored(Tail(ws))

\* C9 (as stated): the number the closing line prints is the number of
\* documents in the batches whose write succeeded, the value of processedDocs.
C9_SummaryCountsWritten ==
    /\ processedDocs = Stored(writes)
    /\ processedDocs <= Len(allDocs)
    /\ (summary # -1) => (summary = Stored(writes) /\ summary = processedDocs)
====
